---- MODULE Spec2Model ----
(***************************************************************************)
(* Model of pkg/compose/watch.go: the watch orchestrator (Watch), the      *)
(* per-service loop (watch) with its three goroutines (reader, debouncer,  *)
(* batch consumer), the event classifier (maybeFileEvent), the trigger     *)
(* resolver (loadDevelopmentConfig), the debouncer (batchDebounceEvents)   *)
(* and the batch dispatcher (handleWatchBatch).                            *)
(*                                                                         *)
(* Paths and patterns are sequences of one-character strings, so that      *)
(* strings.HasPrefix (a character prefix) and path containment (a          *)
(* component prefix) are different operators.                              *)
(***************************************************************************)
EXTENDS Integers, Sequences, FiniteSets, TLC

(***************************************************************************)
(* Bounds of the model.                                                    *)
(***************************************************************************)
\* raw filesystem notifications delivered over a run on a project of one
\* service with one trigger
MaxChanges == 3
\* raw filesystem notifications delivered over a run on the other projects
MaxChangesMulti == 1
\* clock ticks that pass over a run on a project of one service
MaxTime == 4
\* clock ticks that pass over a run on a project of several services
MaxTimeMulti == 0

\* watch.go:62, quietPeriod = 500 * time.Millisecond; one model tick is 250 ms
quietPeriod == 2

(***************************************************************************)
(* Strings as character sequences.                                         *)
(***************************************************************************)
Sep == "/"
Dot == <<".">>
DotDot == <<".", ".">>

\* strings.HasPrefix(s, prefix)
HasPrefix(s, prefix) ==
    /\ Len(prefix) <= Len(s)
    /\ SubSeq(s, 1, Len(prefix)) = prefix

RECURSIVE SplitFrom(_, _, _, _)
SplitFrom(p, i, cur, acc) ==
    IF i > Len(p) THEN Append(acc, cur)
    ELSE IF p[i] = Sep THEN SplitFrom(p, i + 1, <<>>, Append(acc, cur))
    ELSE SplitFrom(p, i + 1, Append(cur, p[i]), acc)

\* the elements of a path between separators (empty elements included)
Split(p) == SplitFrom(p, 1, <<>>, <<>>)

IsRooted(p) == Len(p) > 0 /\ p[1] = Sep

\* filepath.IsAbs on a Unix host
IsAbs(p) == IsRooted(p)

RECURSIVE CleanComps(_, _, _, _)
\* the lexical processing of filepath.Clean: drop empty and "." elements,
\* let ".." remove the element before it (dropped at the root, kept at the
\* start of a relative path)
CleanComps(comps, i, rooted, out) ==
    IF i > Len(comps) THEN out
    ELSE IF comps[i] = <<>> \/ comps[i] = Dot
         THEN CleanComps(comps, i + 1, rooted, out)
    ELSE IF comps[i] = DotDot
         THEN IF Len(out) > 0 /\ out[Len(out)] # DotDot
              THEN CleanComps(comps, i + 1, rooted, SubSeq(out, 1, Len(out) - 1))
              ELSE IF rooted THEN CleanComps(comps, i + 1, rooted, out)
              ELSE CleanComps(comps, i + 1, rooted, Append(out, DotDot))
    ELSE CleanComps(comps, i + 1, rooted, Append(out, comps[i]))

RECURSIVE JoinComps(_, _)
JoinComps(comps, i) ==
    IF i > Len(comps) THEN <<>>
    ELSE IF i = Len(comps) THEN comps[i]
    ELSE comps[i] \o <<Sep>> \o JoinComps(comps, i + 1)

\* the cleaned elements of a path
Comps(p) == CleanComps(Split(p), 1, IsRooted(p), <<>>)

\* filepath.Clean / path.Clean: the empty path cleans to "."
Clean(p) ==
    LET body == JoinComps(Comps(p), 1) IN
    IF IsRooted(p) THEN <<Sep>> \o body
    ELSE IF body = <<>> THEN Dot
    ELSE body

\* filepath.Join / path.Join of two elements: empty elements are ignored, the
\* rest joined by a separator and cleaned; all empty gives the empty string
Join(a, b) ==
    IF a = <<>> /\ b = <<>> THEN <<>>
    ELSE IF a = <<>> THEN Clean(b)
    ELSE IF b = <<>> THEN Clean(a)
    ELSE Clean(a \o <<Sep>> \o b)

RECURSIVE CommonLen(_, _, _)
CommonLen(a, b, i) ==
    IF i > Len(a) \/ i > Len(b) \/ a[i] # b[i] THEN i - 1
    ELSE CommonLen(a, b, i + 1)

\* filepath.Rel(base, targ): [ok, rel]; fails when only one of the two is
\* rooted, or when base climbs above what targ names
Rel(base, targ) ==
    LET b == Comps(base)
        t == Comps(targ)
        n == CommonLen(b, t, 1)
        ups == [k \in 1..(Len(b) - n) |-> DotDot]
        rest == ups \o SubSeq(t, n + 1, Len(t))
    IN  IF IsRooted(base) # IsRooted(targ) THEN [ok |-> FALSE, rel |-> <<>>]
        ELSE IF \E k \in (n + 1)..Len(b) : b[k] = DotDot
             THEN [ok |-> FALSE, rel |-> <<>>]
        ELSE IF rest = <<>> THEN [ok |-> TRUE, rel |-> Dot]
        ELSE [ok |-> TRUE, rel |-> JoinComps(rest, 1)]

\* watch.IsChild(dir, file): file is dir or a descendant of dir, compared
\* element by element
IsChild(dir, file) ==
    /\ dir # <<>>
    /\ IsRooted(dir) = IsRooted(file)
    /\ Len(Comps(dir)) <= Len(Comps(file))
    /\ SubSeq(Comps(file), 1, Len(Comps(dir))) = Comps(dir)

(***************************************************************************)
(* path/filepath as built for the host: on Windows both "\" and "/"        *)
(* separate the elements of a host path and filepath joins with "\"; the   *)
(* package path, used for container paths, knows "/" alone on every host.  *)
(***************************************************************************)
Linux == "linux"
Windows == "windows"
BackSlash == "\\"

\* os.IsPathSeparator
IsPathSeparator(goos, c) == c = Sep \/ (goos = Windows /\ c = BackSlash)

\* filepath.Separator
Separator(goos) == IF goos = Windows THEN BackSlash ELSE Sep

RECURSIVE SplitOnFrom(_, _, _, _, _)
SplitOnFrom(goos, p, i, cur, acc) ==
    IF i > Len(p) THEN Append(acc, cur)
    ELSE IF IsPathSeparator(goos, p[i]) THEN SplitOnFrom(goos, p, i + 1, <<>>, Append(acc, cur))
    ELSE SplitOnFrom(goos, p, i + 1, Append(cur, p[i]), acc)

IsRootedOn(goos, p) == Len(p) > 0 /\ IsPathSeparator(goos, p[1])

\* the cleaned elements of a host path; a volume name ("C:") is the first
\* element of the paths that have one
CompsOn(goos, p) == CleanComps(SplitOnFrom(goos, p, 1, <<>>, <<>>), 1, IsRootedOn(goos, p), <<>>)

RECURSIVE JoinCompsWith(_, _, _)
JoinCompsWith(sep, comps, i) ==
    IF i > Len(comps) THEN <<>>
    ELSE IF i = Len(comps) THEN comps[i]
    ELSE comps[i] \o <<sep>> \o JoinCompsWith(sep, comps, i + 1)

\* filepath.Rel(base, targ) of the host: the result is joined with the
\* host's separator
RelOn(goos, base, targ) ==
    LET b == CompsOn(goos, base)
        t == CompsOn(goos, targ)
        n == CommonLen(b, t, 1)
        ups == [k \in 1..(Len(b) - n) |-> DotDot]
        rest == ups \o SubSeq(t, n + 1, Len(t))
    IN  IF IsRootedOn(goos, base) # IsRootedOn(goos, targ) THEN [ok |-> FALSE, rel |-> <<>>]
        ELSE IF \E k \in (n + 1)..Len(b) : b[k] = DotDot
             THEN [ok |-> FALSE, rel |-> <<>>]
        ELSE IF rest = <<>> THEN [ok |-> TRUE, rel |-> Dot]
        ELSE [ok |-> TRUE, rel |-> JoinCompsWith(Separator(goos), rest, 1)]

\* watch.IsChild(dir, file) of the host
IsChildOn(goos, dir, file) ==
    /\ dir # <<>>
    /\ IsRootedOn(goos, dir) = IsRootedOn(goos, file)
    /\ Len(CompsOn(goos, dir)) <= Len(CompsOn(goos, file))
    /\ SubSeq(CompsOn(goos, file), 1, Len(CompsOn(goos, dir))) = CompsOn(goos, dir)

(***************************************************************************)
(* Data model: watch.go:44-68.                                             *)
(***************************************************************************)
WatchActionSync == "sync"
WatchActionRebuild == "rebuild"

\* the nil *fileEvent and the nil *DevelopmentConfig
NoEvent == [Action |-> "none", HostPath |-> <<>>, ContainerPath |-> <<>>]
NoConfig == [Present |-> FALSE, Watch |-> <<>>]

\* a fileEvent value: sync.PathMapping embedded, plus the Action
FileEvent(action, hostPath, containerPath) ==
    [Action |-> action, HostPath |-> hostPath, ContainerPath |-> containerPath]

PathMapping(e) == [HostPath |-> e.HostPath, ContainerPath |-> e.ContainerPath]

Trigger(path, action, target, ignore) ==
    [Path |-> path, Action |-> action, Target |-> target, Ignore |-> ignore]

(***************************************************************************)
(* The ignore matcher of pkg/watch, by its contract: a pattern is a path   *)
(* relative to the matcher's root and ignores that subtree; a pattern      *)
(* holding "[" is malformed and makes construction fail.                   *)
(***************************************************************************)
BadPattern == <<"[">>

NewDockerPatternMatcherOK(patterns) ==
    \A k \in 1..Len(patterns) : patterns[k] # BadPattern

Matches(goos, root, patterns, hostPath) ==
    \E k \in 1..Len(patterns) :
        IsChildOn(goos, root \o <<Separator(goos)>> \o patterns[k], hostPath)

(***************************************************************************)
(* checkIfPathAlreadyBindMounted, watch.go:358-365.                        *)
(***************************************************************************)
checkIfPathAlreadyBindMounted(watchPath, volumes) ==
    \E k \in 1..Len(volumes) :
        volumes[k].Bind /\ HasPrefix(watchPath, volumes[k].Source)

(***************************************************************************)
(* maybeFileEvent, watch.go:236-269.  goos is the host the program is built *)
(* for; matchErr is the error result of ignore.Matches for this call.      *)
(***************************************************************************)
\* a classifier that takes a path whose ignore.Matches call failed as a path
\* that is not ignored
maybeFileEventErrNotIgnored(goos, trigger, hostPath, matchErr) ==
    IF ~IsChildOn(goos, trigger.Path, hostPath) THEN NoEvent
    ELSE IF ~matchErr /\ Matches(goos, trigger.Path, trigger.Ignore, hostPath) THEN NoEvent
    ELSE IF trigger.Target # <<>>
         THEN LET r == RelOn(goos, trigger.Path, hostPath) IN
              IF ~r.ok THEN NoEvent
              ELSE FileEvent(trigger.Action, hostPath, Join(trigger.Target, r.rel))
    ELSE FileEvent(trigger.Action, hostPath, <<>>)

maybeFileEvent(goos, trigger, hostPath, matchErr) ==
    IF ~IsChildOn(goos, trigger.Path, hostPath) THEN NoEvent
    ELSE IF matchErr THEN NoEvent
    ELSE IF Matches(goos, trigger.Path, trigger.Ignore, hostPath) THEN NoEvent
    ELSE IF trigger.Target # <<>>
         THEN LET r == RelOn(goos, trigger.Path, hostPath) IN
              IF ~r.ok THEN NoEvent
              ELSE FileEvent(trigger.Action, hostPath, Join(trigger.Target, r.rel))
    ELSE FileEvent(trigger.Action, hostPath, <<>>)

(***************************************************************************)
(* loadDevelopmentConfig, watch.go:271-306.  The modelled file system has  *)
(* no symbolic links below the working directory, so EvalSymlinks of a     *)
(* trigger path yields the cleaned path or fails and leaves it as it is;   *)
(* both end in filepath.Clean.  wdOK: EvalSymlinks(project.WorkingDir)     *)
(* succeeds.                                                               *)
(***************************************************************************)
RECURSIVE resolveTriggers(_, _, _, _)
resolveTriggers(service, baseDir, i, acc) ==
    IF i > Len(service.Develop.Watch) THEN [config |-> [Present |-> TRUE, Watch |-> acc], err |-> "nil"]
    ELSE LET t == service.Develop.Watch[i]
             joined == IF IsAbs(t.Path) THEN t.Path ELSE Join(baseDir, t.Path)
             cleaned == Clean(joined)
         IN  IF cleaned = <<>> THEN [config |-> NoConfig, err |-> "nopath"]
             ELSE IF t.Action = WatchActionRebuild /\ ~service.Build
                  THEN [config |-> NoConfig, err |-> "norebuild"]
             ELSE resolveTriggers(service, baseDir, i + 1,
                                  Append(acc, [t EXCEPT !.Path = cleaned]))

loadDevelopmentConfig(service, workingDir, wdOK) ==
    IF ~service.Develop.Present THEN [config |-> NoConfig, err |-> "nil"]
    ELSE IF ~service.Develop.Decodes THEN [config |-> NoConfig, err |-> "decode"]
    ELSE IF ~wdOK THEN [config |-> NoConfig, err |-> "symlink"]
    ELSE resolveTriggers(service, Clean(workingDir), 1, <<>>)

(***************************************************************************)
(* handleWatchBatch, watch.go:439-489.  The result is the sequence of      *)
(* collaborator calls made, whether the collaborator called failed, and    *)
(* the error returned.  serviceName is always the name of a service of the *)
(* project, so project.GetService finds it.                                *)
(***************************************************************************)
UpCall(serviceName) ==
    [kind |-> "up", services |-> <<serviceName>>, mappings |-> <<>>]
SyncCall(serviceName, pathMappings) ==
    [kind |-> "sync", services |-> <<serviceName>>, mappings |-> pathMappings]

RECURSIVE scanBatch(_, _, _, _, _, _)
scanBatch(serviceName, batch, i, pathMappings, upFails, syncFails) ==
    IF i > Len(batch)
    THEN [calls |-> <<SyncCall(serviceName, pathMappings)>>,
          failed |-> syncFails,
          err |-> IF syncFails THEN "sync" ELSE "nil"]
    ELSE IF batch[i].Action = WatchActionRebuild
         THEN [calls |-> <<UpCall(serviceName)>>, failed |-> upFails, err |-> "nil"]
    ELSE scanBatch(serviceName, batch, i + 1,
                   Append(pathMappings, PathMapping(batch[i])), upFails, syncFails)

\* handleWatchBatch without the return of watch.go:474: the scan goes on after
\* the rebuild and ends in the sync
RECURSIVE scanBatchNoReturn(_, _, _, _, _)
scanBatchNoReturn(serviceName, batch, i, pathMappings, calls) ==
    IF i > Len(batch)
    THEN Append(calls, SyncCall(serviceName, pathMappings))
    ELSE IF batch[i].Action = WatchActionRebuild
         THEN scanBatchNoReturn(serviceName, batch, i + 1, pathMappings,
                                Append(calls, UpCall(serviceName)))
    ELSE scanBatchNoReturn(serviceName, batch, i + 1,
                           Append(pathMappings, PathMapping(batch[i])), calls)

handleWatchBatchNoReturn(serviceName, batch, upFails, syncFails) ==
    [calls |-> scanBatchNoReturn(serviceName, batch, 1, <<>>, <<>>),
     failed |-> syncFails,
     err |-> IF syncFails THEN "sync" ELSE "nil"]

\* upFails, syncFails: whether s.Up and syncer.Sync fail when called; a failure
\* of Up is printed and not returned (watch.go:471-474)
handleWatchBatch(serviceName, batch, upFails, syncFails) ==
    scanBatch(serviceName, batch, 1, <<>>, upFails, syncFails)

(***************************************************************************)
(* flushEvents, watch.go:317-334: the keys of the seen map in the order    *)
(* the map iteration yields them, sorted by sort.SliceStable with          *)
(* less(x, y) = seen[x].Before(seen[y]).                                   *)
(***************************************************************************)
\* every order a range over a Go map can yield
Orders(S) ==
    {q \in [1..Cardinality(S) -> S] : \A i, j \in 1..Cardinality(S) : i # j => q[i] # q[j]}

\* insert e behind every element that is not later than it
InsertStable(sorted, e, ts) ==
    LET later == {k \in 1..Len(sorted) : ts[e] < ts[sorted[k]]}
        at == IF later = {} THEN Len(sorted) + 1
              ELSE CHOOSE k \in later : \A m \in later : k <= m
    IN  SubSeq(sorted, 1, at - 1) \o <<e>> \o SubSeq(sorted, at, Len(sorted))

RECURSIVE SortStableFrom(_, _, _, _)
SortStableFrom(events, ts, i, acc) ==
    IF i > Len(events) THEN acc
    ELSE SortStableFrom(events, ts, i + 1, InsertStable(acc, events[i], ts))

SliceStable(events, ts) == SortStableFrom(events, ts, 1, <<>>)

(***************************************************************************)
(* The projects the model is run on.                                       *)
(***************************************************************************)
WorkingDir == <<"/">>
SrcDir == <<"/", "s">>
DataDir == <<"/", "s", "/", "d">>
AppDir == <<"/", "a">>
FileF == <<"/", "s", "/", "f">>
FileD == <<"/", "s", "/", "d", "/", "f">>

\* the paths raw filesystem notifications can name
Files == {FileF, FileD}

TrigSync == Trigger(SrcDir, WatchActionSync, AppDir, <<>>)
\* a relative path, resolved against the working directory
TrigRebuild == Trigger(<<"s">>, WatchActionRebuild, <<>>, <<>>)
TrigData == Trigger(DataDir, WatchActionSync, AppDir, <<>>)
TrigBadIgnore == Trigger(SrcDir, WatchActionSync, AppDir, <<BadPattern>>)
TrigIgnoreData == Trigger(SrcDir, WatchActionSync, AppDir, <<<<"d">>>>)

Develop(watch) == [Present |-> TRUE, Decodes |-> TRUE, Watch |-> watch]
NoDevelop == [Present |-> FALSE, Decodes |-> TRUE, Watch |-> <<>>]
BadDevelop == [Present |-> TRUE, Decodes |-> FALSE, Watch |-> <<>>]

Service(name, build, develop, volumes) ==
    [Name |-> name, Build |-> build, Develop |-> develop, Volumes |-> volumes]

BindData == [Bind |-> TRUE, Source |-> DataDir]

SvcSync(name) == Service(name, TRUE, Develop(<<TrigSync>>), <<>>)
SvcMixed(name) == Service(name, TRUE, Develop(<<TrigSync, TrigRebuild>>), <<>>)
SvcBind(name) == Service(name, TRUE, Develop(<<TrigSync, TrigData>>), <<BindData>>)
SvcIgnore(name) == Service(name, TRUE, Develop(<<TrigIgnoreData>>), <<>>)
SvcBadIgnore(name) == Service(name, TRUE, Develop(<<TrigBadIgnore>>), <<>>)
SvcNoBuildRebuild(name) == Service(name, FALSE, Develop(<<TrigRebuild>>), <<>>)
SvcNoBuildSync(name) == Service(name, FALSE, Develop(<<TrigSync>>), <<>>)
SvcNoBuildEmpty(name) == Service(name, FALSE, Develop(<<>>), <<>>)
SvcOptOut(name) == Service(name, FALSE, NoDevelop, <<>>)
SvcBadDevelop(name) == Service(name, TRUE, BadDevelop, <<>>)

\* Selected: "none" when Watch is called with no service names, "all" when it
\* names the services of the project, "unknown" when it names a service the
\* project does not have
\* GOOS: the host the program is built for and runs on
Project(services, selected, wdOK) ==
    [Services |-> services, Selected |-> selected, WorkingDirOK |-> wdOK,
     GOOS |-> Linux]

\* the raw notifications a run on the project delivers at most
ChangeBudget(p) ==
    IF Len(p.Services) = 1 /\ Len(p.Services[1].Develop.Watch) = 1
    THEN MaxChanges ELSE MaxChangesMulti

\* the clock ticks that pass at most over a run on the project
TimeBudget(p) == IF Len(p.Services) = 1 THEN MaxTime ELSE MaxTimeMulti

Projects ==
    { Project(<<SvcSync("a")>>, "none", TRUE),
      Project(<<SvcMixed("a")>>, "all", TRUE),
      Project(<<SvcBind("a")>>, "none", TRUE),
      Project(<<SvcIgnore("a")>>, "none", TRUE),
      Project(<<SvcSync("a"), SvcSync("b")>>, "none", TRUE),
      Project(<<SvcSync("a"), SvcNoBuildRebuild("b")>>, "none", TRUE),
      Project(<<SvcNoBuildRebuild("a"), SvcSync("b")>>, "none", TRUE),
      Project(<<SvcOptOut("a"), SvcNoBuildEmpty("b")>>, "none", TRUE),
      Project(<<SvcSync("a"), SvcNoBuildEmpty("b")>>, "all", TRUE),
      Project(<<SvcNoBuildSync("a")>>, "none", TRUE),
      Project(<<SvcBadIgnore("a"), SvcSync("b")>>, "none", TRUE),
      Project(<<SvcBadDevelop("a")>>, "none", TRUE),
      Project(<<SvcSync("a")>>, "unknown", TRUE),
      Project(<<SvcSync("a")>>, "none", FALSE) }

MaxServices == 2
SvcIds == 1..MaxServices

(***************************************************************************)
(* State.                                                                  *)
(***************************************************************************)
VARIABLES
    project,      \* the project and the selection Watch is called with
    now,          \* the clock, in ticks
    changes,      \* raw notifications delivered so far
    parentDone,   \* the context given to Watch is cancelled
    groupDone,    \* the errgroup's context is cancelled
    egErr,        \* the errgroup's first error
    wpc,          \* Watch: "start", "loop", "wait", "returned"
    wi,           \* Watch: index of the service the loop is at
    wresult,      \* Watch: the error returned
    watching,     \* Watch: the local of that name
    cfg,          \* per service: config.Watch as resolved
    watchPaths,   \* per service: the paths given to watch.NewWatcher
    watcher,      \* per service: "none", "started", "closed"
    svcDone,      \* per service: cancel() of watch's own context was called
    rpc,          \* per service, watch's loop: "idle", "start", "select", "send", "done";
                  \* "closed" once the owner of the debouncer's input has closed it
    rqueue,       \* per service: the file events of the raw change at hand still to send
    rerr,         \* per service: the value watch returned
    dpc,          \* per service, debouncer: "idle", "select", "send", "final" (the
                  \* send of the flush that follows the closing of its input), "done"
    seen,         \* per service: the debouncer's map fileEvent -> time
    dbatch,       \* per service: the batch the debouncer is sending
    tickBuf,      \* per service: a tick waits in the ticker's channel
    deadline,     \* per service: when the ticker fires next
    cpc,          \* per service, batch consumer: "idle", "select", "dispatch", "done"
    cbatch,       \* per service: the batch being dispatched
    inflight,     \* per service: calls of handleWatchBatch that have not returned
    lastObs,      \* history: when each event pending in the debouncer was last received
    reordered,    \* history: an event pending in the debouncer was received again after
                  \* another pending event that was received after it
    sinceAccept,  \* history: the time since the debouncer last received an event,
                  \* counted up to quietPeriod
    lastQuiet,    \* history: sinceAccept when the last batch was handed to the consumer
    burst,        \* history: the event last received, and the batches that held it since
                  \* the run of receives of it, each less than quietPeriod after the one
                  \* before, began
    discovered,   \* history: the events pending in the debouncer, in the order in
                  \* which each was first received
    lastRaw,      \* history: the raw change last taken from a watcher: the service,
                  \* the path, and the triggers whose ignore.Matches call failed
    lastDispatch, \* history: the collaborator calls and the result of the call of
                  \* handleWatchBatch on cbatch, once it has returned
    produced      \* history: the triggers maybeFileEvent returned an event for

wvars == <<project, parentDone, groupDone, egErr, wpc, wi, wresult, watching,
           cfg, watchPaths, watcher>>
rvars == <<svcDone, rpc, rqueue, rerr, changes, produced>>
dvars == <<dpc, seen, dbatch, tickBuf, deadline, now>>
cvars == <<cpc, cbatch, inflight, lastDispatch>>
hvars == <<lastObs, reordered, sinceAccept, lastQuiet, burst, discovered, lastRaw>>
vars == <<wvars, rvars, dvars, cvars, hvars>>

N == Len(project.Services)
Name(s) == project.Services[s].Name

\* ctx.Done() of the context watch derives from the errgroup's (watch.go:92, 183)
ctxDone(s) == parentDone \/ groupDone \/ svcDone[s]

NoBurst == [ev |-> NoEvent, batches |-> 0]
NoRaw == [svc |-> 0, path |-> <<>>, errs |-> {}]
NoDispatch == [returned |-> FALSE, calls |-> <<>>, failed |-> FALSE, err |-> "nil"]

Init ==
    /\ project \in Projects
    /\ now = 0
    /\ changes = 0
    /\ parentDone = FALSE
    /\ groupDone = FALSE
    /\ egErr = "nil"
    /\ wpc = "start"
    /\ wi = 1
    /\ wresult = "nil"
    /\ watching = FALSE
    /\ cfg = [s \in SvcIds |-> <<>>]
    /\ watchPaths = [s \in SvcIds |-> <<>>]
    /\ watcher = [s \in SvcIds |-> "none"]
    /\ svcDone = [s \in SvcIds |-> FALSE]
    /\ rpc = [s \in SvcIds |-> "idle"]
    /\ rqueue = [s \in SvcIds |-> <<>>]
    /\ rerr = [s \in SvcIds |-> "nil"]
    /\ dpc = [s \in SvcIds |-> "idle"]
    /\ seen = [s \in SvcIds |-> <<>>]
    /\ dbatch = [s \in SvcIds |-> <<>>]
    /\ tickBuf = [s \in SvcIds |-> FALSE]
    /\ deadline = [s \in SvcIds |-> 0]
    /\ cpc = [s \in SvcIds |-> "idle"]
    /\ cbatch = [s \in SvcIds |-> <<>>]
    /\ inflight = [s \in SvcIds |-> 0]
    /\ lastObs = [s \in SvcIds |-> <<>>]
    /\ reordered = [s \in SvcIds |-> FALSE]
    /\ sinceAccept = [s \in SvcIds |-> quietPeriod]
    /\ lastQuiet = [s \in SvcIds |-> quietPeriod]
    /\ burst = [s \in SvcIds |-> NoBurst]
    /\ discovered = [s \in SvcIds |-> <<>>]
    /\ lastRaw = NoRaw
    /\ lastDispatch = [s \in SvcIds |-> NoDispatch]
    /\ produced = [s \in SvcIds |-> {}]

(***************************************************************************)
(* Watch, watch.go:87-173.                                                 *)
(***************************************************************************)
\* watch.go:141-148: the trigger paths no bind mount covers
watchedPaths(triggers, volumes) ==
    LET kept == SelectSeq(triggers,
                          LAMBDA t : ~checkIfPathAlreadyBindMounted(t.Path, volumes))
    IN  [k \in 1..Len(kept) |-> kept[k].Path]

\* one iteration of the loop of watch.go:94-166 up to eg.Go: what it ends in
\* ("return", "continue" or "go"), with the error returned or the watcher's
\* paths and the triggers handed to watch.  explicit: len(services) > 0;
\* setupOK: LoadDockerIgnore, NewDockerPatternMatcher, NewWatcher and
\* watcher.Start all succeed
watchIteration(service, explicit, wdOK, setupOK) ==
    LET r == loadDevelopmentConfig(service, WorkingDir, wdOK)
        stop(e) == [end |-> "return", err |-> e, paths |-> <<>>, triggers |-> <<>>]
        skip == [end |-> "continue", err |-> "nil", paths |-> <<>>, triggers |-> <<>>]
    IN  IF r.err # "nil" THEN stop(r.err)
        ELSE IF ~r.config.Present THEN skip
        ELSE IF Len(r.config.Watch) > 0 /\ ~service.Build THEN stop("nobuild")
        ELSE IF explicit /\ ~service.Build THEN stop("nobuild")
        ELSE IF ~explicit /\ ~service.Build THEN skip
        ELSE IF ~setupOK THEN stop("setup")
        ELSE [end |-> "go", err |-> "nil",
              paths |-> watchedPaths(r.config.Watch, service.Volumes),
              triggers |-> r.config.Watch]

\* watch.go:88-93
WatchForServices ==
    /\ wpc = "start"
    /\ IF project.Selected = "unknown"
       THEN /\ wpc' = "returned"
            /\ wresult' = "forservices"
       ELSE /\ wpc' = "loop"
            /\ UNCHANGED wresult
    /\ UNCHANGED <<project, parentDone, groupDone, egErr, wi, watching, cfg,
                   watchPaths, watcher>>
    /\ UNCHANGED <<rvars, dvars, cvars, hvars>>

\* watch.go:94-166, one service
WatchService(setupOK) ==
    /\ wpc = "loop"
    /\ wi <= N
    /\ LET it == watchIteration(project.Services[wi], project.Selected = "all",
                                project.WorkingDirOK, setupOK)
       IN  /\ wpc' = IF it.end = "return" THEN "returned" ELSE "loop"
           /\ wresult' = IF it.end = "return" THEN it.err ELSE wresult
           /\ wi' = IF it.end = "return" THEN wi ELSE wi + 1
           /\ watching' = (watching \/ it.end = "go")
           /\ cfg' = IF it.end = "go" THEN [cfg EXCEPT ![wi] = it.triggers] ELSE cfg
           /\ watchPaths' = IF it.end = "go" THEN [watchPaths EXCEPT ![wi] = it.paths]
                            ELSE watchPaths
           /\ watcher' = IF it.end = "go" THEN [watcher EXCEPT ![wi] = "started"]
                         ELSE watcher
           /\ rpc' = IF it.end = "go" THEN [rpc EXCEPT ![wi] = "start"] ELSE rpc
    /\ UNCHANGED <<project, parentDone, groupDone, egErr>>
    /\ UNCHANGED <<svcDone, rqueue, rerr, changes, produced>>
    /\ UNCHANGED <<dvars, cvars, hvars>>

\* watch.go:168-170
WatchLoopEnd ==
    /\ wpc = "loop"
    /\ wi > N
    /\ IF watching
       THEN /\ wpc' = "wait"
            /\ UNCHANGED wresult
       ELSE /\ wpc' = "returned"
            /\ wresult' = "nowatch"
    /\ UNCHANGED <<project, parentDone, groupDone, egErr, wi, watching, cfg,
                   watchPaths, watcher>>
    /\ UNCHANGED <<rvars, dvars, cvars, hvars>>

\* watch.go:172, eg.Wait: every function passed to eg.Go has returned; Wait
\* cancels the group's context and returns the first error
WatchWait ==
    /\ wpc = "wait"
    /\ \A s \in SvcIds : rpc[s] \in {"idle", "done"}
    /\ wpc' = "returned"
    /\ wresult' = egErr
    /\ groupDone' = TRUE
    /\ UNCHANGED <<project, parentDone, egErr, wi, watching, cfg, watchPaths, watcher>>
    /\ UNCHANGED <<rvars, dvars, cvars, hvars>>

\* the caller cancels the context it gave to Watch
CancelParent ==
    /\ ~parentDone
    /\ parentDone' = TRUE
    /\ UNCHANGED <<project, groupDone, egErr, wpc, wi, wresult, watching, cfg,
                   watchPaths, watcher>>
    /\ UNCHANGED <<rvars, dvars, cvars, hvars>>

(***************************************************************************)
(* watch, watch.go:175-230: the loop of one service.                       *)
(***************************************************************************)
\* the error a failing filesystem watcher of service s delivers
FsErr(s) == <<"fs1", "fs2", "fs3">>[s]

\* watch returns err: its deferred cancel (watch.go:184), the deferred
\* watcher.Close of the function given to eg.Go (watch.go:163), and the
\* errgroup keeping the first error and cancelling its context
WatchReturns(s, err) ==
    /\ rpc' = [rpc EXCEPT ![s] = "done"]
    /\ rerr' = [rerr EXCEPT ![s] = err]
    /\ svcDone' = [svcDone EXCEPT ![s] = TRUE]
    /\ watcher' = [watcher EXCEPT ![s] = "closed"]
    /\ egErr' = IF err # "nil" /\ egErr = "nil" THEN err ELSE egErr
    /\ groupDone' = (groupDone \/ (err # "nil" /\ egErr = "nil"))
    /\ UNCHANGED <<project, parentDone, wpc, wi, wresult, watching, cfg, watchPaths>>

\* watch.go:183-212: the ignore matchers, then the debouncer and the consumer
\* goroutines; the debouncer creates its ticker (watch.go:336)
WatchStart(s) ==
    /\ rpc[s] = "start"
    /\ IF \A k \in 1..Len(cfg[s]) : NewDockerPatternMatcherOK(cfg[s][k].Ignore)
       THEN /\ rpc' = [rpc EXCEPT ![s] = "select"]
            /\ dpc' = [dpc EXCEPT ![s] = "select"]
            /\ deadline' = [deadline EXCEPT ![s] = now + quietPeriod]
            /\ cpc' = [cpc EXCEPT ![s] = "select"]
            /\ UNCHANGED <<wvars, svcDone, rerr>>
       ELSE /\ WatchReturns(s, "pattern")
            /\ UNCHANGED <<dpc, deadline, cpc>>
    /\ UNCHANGED <<rqueue, changes, produced>>
    /\ UNCHANGED <<seen, dbatch, tickBuf, now>>
    /\ UNCHANGED <<cbatch, inflight, lastDispatch>>
    /\ UNCHANGED hvars

\* watch.go:216-217
WatchCtxDone(s) ==
    /\ rpc[s] = "select"
    /\ ctxDone(s)
    /\ WatchReturns(s, "nil")
    /\ UNCHANGED <<rqueue, changes, produced>>
    /\ UNCHANGED <<dvars, cvars, hvars>>

\* watch.go:218-219: the watcher reports an error
WatchFsError(s) ==
    /\ rpc[s] = "select"
    /\ WatchReturns(s, FsErr(s))
    /\ UNCHANGED <<rqueue, changes, produced>>
    /\ UNCHANGED <<dvars, cvars, hvars>>

\* the file events of one raw change, in trigger order (watch.go:222-227);
\* errs: the triggers whose ignore.Matches call fails
RECURSIVE fileEvents(_, _, _, _, _)
fileEvents(goos, triggers, hostPath, errs, i) ==
    IF i > Len(triggers) THEN <<>>
    ELSE LET e == maybeFileEvent(goos, triggers[i], hostPath, i \in errs) IN
         IF e = NoEvent THEN fileEvents(goos, triggers, hostPath, errs, i + 1)
         ELSE <<[idx |-> i, ev |-> e]>> \o fileEvents(goos, triggers, hostPath, errs, i + 1)

\* the watcher reports what lies below one of the paths it was given
Watched(s, hostPath) ==
    \E k \in 1..Len(watchPaths[s]) : IsChildOn(project.GOOS, watchPaths[s][k], hostPath)

\* watch.go:220-227: a raw change is taken from watcher.Events(); the loop is
\* then at the send of the first file event, or back at the select
WatchEvent(s, hostPath, errs) ==
    /\ rpc[s] = "select"
    /\ changes < ChangeBudget(project)
    /\ Watched(s, hostPath)
    /\ changes' = changes + 1
    /\ LET q == fileEvents(project.GOOS, cfg[s], hostPath, errs, 1) IN
       /\ rqueue' = [rqueue EXCEPT ![s] = q]
       /\ rpc' = [rpc EXCEPT ![s] = IF q = <<>> THEN "select" ELSE "send"]
       /\ produced' = [produced EXCEPT ![s] =
                          IF q = <<>> THEN @ ELSE @ \cup {q[1].idx}]
    /\ lastRaw' = [svc |-> s, path |-> hostPath, errs |-> errs]
    /\ UNCHANGED <<wvars, svcDone, rerr>>
    /\ UNCHANGED <<lastObs, reordered, sinceAccept, lastQuiet, burst, discovered>>
    /\ UNCHANGED <<dvars, cvars>>

(***************************************************************************)
(* batchDebounceEvents, watch.go:312-356.  The ticker (clockwork's, a      *)
(* time.Ticker) has a channel of capacity one: a tick is kept there until  *)
(* it is received, a tick that finds the channel full is dropped, and      *)
(* Reset sets the next firing time without emptying the channel.           *)
(***************************************************************************)
TickerRunning(s) == dpc[s] \in {"select", "send", "final"}

Min(a, b) == IF a < b THEN a ELSE b

\* the runtime fires the ticker at its deadline
TickFire(s) ==
    /\ TickerRunning(s)
    /\ now >= deadline[s]
    /\ tickBuf' = [tickBuf EXCEPT ![s] = TRUE]
    /\ deadline' = [deadline EXCEPT ![s] = @ + quietPeriod]
    /\ UNCHANGED <<dpc, seen, dbatch, now>>
    /\ UNCHANGED <<wvars, rvars, cvars, hvars>>

\* time passes, never beyond the deadline of a running ticker
Advance ==
    /\ now < TimeBudget(project)
    /\ \E s \in SvcIds : TickerRunning(s)
    /\ \A s \in SvcIds : TickerRunning(s) => now < deadline[s]
    /\ now' = now + 1
    /\ sinceAccept' = [s \in SvcIds |-> Min(sinceAccept[s] + 1, quietPeriod)]
    /\ UNCHANGED <<dpc, seen, dbatch, tickBuf, deadline>>
    /\ UNCHANGED <<lastObs, reordered, lastQuiet, burst, discovered, lastRaw>>
    /\ UNCHANGED <<wvars, rvars, cvars>>

\* the cancellation branch made to flush: a non-empty map is sent as a batch
\* before the debouncer terminates
DebounceCtxDoneFlush(s) ==
    /\ dpc[s] = "select"
    /\ ctxDone(s)
    /\ IF DOMAIN seen[s] = {}
       THEN /\ dpc' = [dpc EXCEPT ![s] = "done"]
            /\ UNCHANGED dbatch
       ELSE /\ dpc' = [dpc EXCEPT ![s] = "send"]
            /\ \E order \in Orders(DOMAIN seen[s]) :
                   dbatch' = [dbatch EXCEPT ![s] = SliceStable(order, seen[s])]
    /\ UNCHANGED <<seen, tickBuf, deadline, now>>
    /\ UNCHANGED <<wvars, rvars, cvars, hvars>>

\* watch.go:340-341, with the deferred t.Stop and close(out)
DebounceCtxDone(s) ==
    /\ dpc[s] = "select"
    /\ ctxDone(s)
    /\ dpc' = [dpc EXCEPT ![s] = "done"]
    /\ UNCHANGED <<seen, dbatch, tickBuf, deadline, now>>
    /\ UNCHANGED <<wvars, rvars, cvars, hvars>>

\* a flush without the return of watch.go:318-320: the tick sends whatever
\* the map holds, an empty batch too
DebounceTickAlways(s, order) ==
    /\ dpc[s] = "select"
    /\ tickBuf[s]
    /\ order \in Orders(DOMAIN seen[s])
    /\ tickBuf' = [tickBuf EXCEPT ![s] = FALSE]
    /\ dbatch' = [dbatch EXCEPT ![s] = SliceStable(order, seen[s])]
    /\ dpc' = [dpc EXCEPT ![s] = "send"]
    /\ UNCHANGED <<seen, deadline, now>>
    /\ UNCHANGED <<wvars, rvars, cvars, hvars>>

\* watch.go:342-343 and flushEvents up to its send, watch.go:317-332
DebounceTick(s, order) ==
    /\ dpc[s] = "select"
    /\ tickBuf[s]
    /\ order \in Orders(DOMAIN seen[s])
    /\ tickBuf' = [tickBuf EXCEPT ![s] = FALSE]
    /\ IF DOMAIN seen[s] = {}
       THEN UNCHANGED <<dpc, dbatch>>
       ELSE /\ dbatch' = [dbatch EXCEPT ![s] = SliceStable(order, seen[s])]
            /\ dpc' = [dpc EXCEPT ![s] = "send"]
    /\ UNCHANGED <<seen, deadline, now>>
    /\ UNCHANGED <<wvars, rvars, cvars, hvars>>

\* the run of equal events after e is received, gap after the receive before
BurstAfter(b, e, gap) ==
    IF b.ev = e /\ gap < quietPeriod THEN b ELSE [ev |-> e, batches |-> 0]

\* the receive of an event that keeps the time the event was first received
DebounceInputKeepFirst(s) ==
    /\ rpc[s] = "send"
    /\ dpc[s] = "select"
    /\ LET e == Head(rqueue[s]).ev
           rest == Tail(rqueue[s])
       IN  /\ seen' = [seen EXCEPT ![s] = @ @@ (e :> now)]
           /\ deadline' = [deadline EXCEPT ![s] = now + quietPeriod]
           /\ rqueue' = [rqueue EXCEPT ![s] = rest]
           /\ rpc' = [rpc EXCEPT ![s] = IF rest = <<>> THEN "select" ELSE "send"]
           /\ produced' = [produced EXCEPT ![s] =
                              IF rest = <<>> THEN @ ELSE @ \cup {rest[1].idx}]
           /\ lastObs' = [lastObs EXCEPT ![s] = (e :> now) @@ @]
           /\ reordered' = [reordered EXCEPT ![s] =
                               @ \/ (e \in DOMAIN lastObs[s] /\
                                     \E x \in DOMAIN lastObs[s] :
                                         lastObs[s][e] < lastObs[s][x] /\ lastObs[s][x] < now)]
           /\ sinceAccept' = [sinceAccept EXCEPT ![s] = 0]
           /\ burst' = [burst EXCEPT ![s] = BurstAfter(@, e, sinceAccept[s])]
           /\ discovered' = [discovered EXCEPT ![s] =
                                IF e \in DOMAIN lastObs[s] THEN @ ELSE Append(@, e)]
    /\ UNCHANGED <<dpc, dbatch, tickBuf, now>>
    /\ UNCHANGED <<svcDone, rerr, changes>>
    /\ UNCHANGED <<lastQuiet, lastRaw>>
    /\ UNCHANGED <<wvars, cvars>>

\* watch.go:225 meeting watch.go:344-351: events is unbuffered, so the send of
\* watch's loop and the receive of the debouncer are one step
DebounceInput(s) ==
    /\ rpc[s] = "send"
    /\ dpc[s] = "select"
    /\ LET e == Head(rqueue[s]).ev
           rest == Tail(rqueue[s])
       IN  /\ seen' = [seen EXCEPT ![s] = (e :> now) @@ @]
           /\ deadline' = [deadline EXCEPT ![s] = now + quietPeriod]
           /\ rqueue' = [rqueue EXCEPT ![s] = rest]
           /\ rpc' = [rpc EXCEPT ![s] = IF rest = <<>> THEN "select" ELSE "send"]
           /\ produced' = [produced EXCEPT ![s] =
                              IF rest = <<>> THEN @ ELSE @ \cup {rest[1].idx}]
           /\ lastObs' = [lastObs EXCEPT ![s] = (e :> now) @@ @]
           /\ reordered' = [reordered EXCEPT ![s] =
                               @ \/ (e \in DOMAIN lastObs[s] /\
                                     \E x \in DOMAIN lastObs[s] :
                                         lastObs[s][e] < lastObs[s][x] /\ lastObs[s][x] < now)]
           /\ sinceAccept' = [sinceAccept EXCEPT ![s] = 0]
           /\ burst' = [burst EXCEPT ![s] = BurstAfter(@, e, sinceAccept[s])]
           /\ discovered' = [discovered EXCEPT ![s] =
                                IF e \in DOMAIN lastObs[s] THEN @ ELSE Append(@, e)]
    /\ UNCHANGED <<dpc, dbatch, tickBuf, now>>
    /\ UNCHANGED <<svcDone, rerr, changes>>
    /\ UNCHANGED <<lastQuiet, lastRaw>>
    /\ UNCHANGED <<wvars, cvars>>

InBatch(e, batch) == \E k \in 1..Len(batch) : batch[k] = e

(***************************************************************************)
(* The batch consumer, watch.go:197-212.                                   *)
(***************************************************************************)
\* the handoff of a batch to a consumer that starts handleWatchBatch in a
\* goroutine of its own and goes back to its select
BatchHandoffAsync(s) ==
    /\ dpc[s] = "send"
    /\ cpc[s] = "select"
    /\ cbatch' = [cbatch EXCEPT ![s] = dbatch[s]]
    /\ UNCHANGED cpc
    /\ inflight' = [inflight EXCEPT ![s] = @ + 1]
    /\ seen' = [seen EXCEPT ![s] = <<>>]
    /\ dbatch' = [dbatch EXCEPT ![s] = <<>>]
    /\ dpc' = [dpc EXCEPT ![s] = "select"]
    /\ lastDispatch' = [lastDispatch EXCEPT ![s] = NoDispatch]
    /\ lastObs' = [lastObs EXCEPT ![s] = <<>>]
    /\ reordered' = [reordered EXCEPT ![s] = FALSE]
    /\ discovered' = [discovered EXCEPT ![s] = <<>>]
    /\ lastQuiet' = [lastQuiet EXCEPT ![s] = sinceAccept[s]]
    /\ burst' = [burst EXCEPT ![s] =
                    IF InBatch(@.ev, dbatch[s]) THEN [@ EXCEPT !.batches = @ + 1] ELSE @]
    /\ UNCHANGED <<tickBuf, deadline, now, sinceAccept, lastRaw>>
    /\ UNCHANGED <<wvars, rvars>>

\* watch.go:332-333 meeting watch.go:202-205: out is unbuffered, so the send
\* of flushEvents and the receive of the consumer are one step; the debouncer
\* goes on to empty its map, the consumer calls handleWatchBatch
BatchHandoff(s) ==
    /\ dpc[s] = "send"
    /\ cpc[s] = "select"
    /\ cbatch' = [cbatch EXCEPT ![s] = dbatch[s]]
    /\ cpc' = [cpc EXCEPT ![s] = "dispatch"]
    /\ inflight' = [inflight EXCEPT ![s] = @ + 1]
    /\ seen' = [seen EXCEPT ![s] = <<>>]
    /\ dbatch' = [dbatch EXCEPT ![s] = <<>>]
    /\ dpc' = [dpc EXCEPT ![s] = "select"]
    /\ lastDispatch' = [lastDispatch EXCEPT ![s] = NoDispatch]
    /\ lastObs' = [lastObs EXCEPT ![s] = <<>>]
    /\ reordered' = [reordered EXCEPT ![s] = FALSE]
    /\ discovered' = [discovered EXCEPT ![s] = <<>>]
    /\ lastQuiet' = [lastQuiet EXCEPT ![s] = sinceAccept[s]]
    /\ burst' = [burst EXCEPT ![s] =
                    IF InBatch(@.ev, dbatch[s]) THEN [@ EXCEPT !.batches = @ + 1] ELSE @]
    /\ UNCHANGED <<tickBuf, deadline, now, sinceAccept, lastRaw>>
    /\ UNCHANGED <<wvars, rvars>>

\* watch.go:202 once the debouncer has closed out: the receive yields the nil
\* batch at once
BatchFromClosed(s) ==
    /\ cpc[s] = "select"
    /\ dpc[s] = "done"
    /\ cbatch' = [cbatch EXCEPT ![s] = <<>>]
    /\ cpc' = [cpc EXCEPT ![s] = "dispatch"]
    /\ inflight' = [inflight EXCEPT ![s] = @ + 1]
    /\ lastDispatch' = [lastDispatch EXCEPT ![s] = NoDispatch]
    /\ UNCHANGED <<wvars, rvars, dvars, hvars>>

\* watch.go:200-201
ConsumerCtxDone(s) ==
    /\ cpc[s] = "select"
    /\ ctxDone(s)
    /\ cpc' = [cpc EXCEPT ![s] = "done"]
    /\ UNCHANGED <<cbatch, inflight, lastDispatch>>
    /\ UNCHANGED <<wvars, rvars, dvars, hvars>>

\* a consumer that gives up when the collaborator handleWatchBatch called
\* has failed: it cancels the loop's context and returns
HandleBatchFatal(s, upFails, syncFails) ==
    /\ cpc[s] = "dispatch"
    /\ LET r == handleWatchBatch(Name(s), cbatch[s], upFails, syncFails) IN
       /\ lastDispatch' = [lastDispatch EXCEPT ![s] =
                               [returned |-> TRUE, calls |-> r.calls,
                                failed |-> r.failed, err |-> r.err]]
       /\ cpc' = [cpc EXCEPT ![s] = IF r.failed THEN "done" ELSE "select"]
       /\ svcDone' = [svcDone EXCEPT ![s] = @ \/ r.failed]
    /\ inflight' = [inflight EXCEPT ![s] = @ - 1]
    /\ UNCHANGED cbatch
    /\ UNCHANGED <<rpc, rqueue, rerr, changes, produced>>
    /\ UNCHANGED <<wvars, dvars, hvars>>

\* watch.go:205-209: handleWatchBatch runs and returns; its error is logged
HandleBatch(s, upFails, syncFails) ==
    /\ cpc[s] = "dispatch"
    /\ LET r == handleWatchBatch(Name(s), cbatch[s], upFails, syncFails) IN
       lastDispatch' = [lastDispatch EXCEPT ![s] =
                           [returned |-> TRUE, calls |-> r.calls,
                            failed |-> r.failed, err |-> r.err]]
    /\ cpc' = [cpc EXCEPT ![s] = "select"]
    /\ inflight' = [inflight EXCEPT ![s] = @ - 1]
    /\ UNCHANGED cbatch
    /\ UNCHANGED <<wvars, rvars, dvars, hvars>>

(***************************************************************************)
(* batchDebounceEvents when its input is closed, watch.go:344-349.  watch  *)
(* never closes the channel it sends on; the branch is taken when the      *)
(* owner of the input closes it.                                           *)
(***************************************************************************)
\* the owner of the input channel closes it, between two sends
InputClose(s) ==
    /\ rpc[s] = "select"
    /\ rpc' = [rpc EXCEPT ![s] = "closed"]
    /\ UNCHANGED <<svcDone, rqueue, rerr, changes, produced>>
    /\ UNCHANGED <<wvars, dvars, cvars, hvars>>

\* a closure branch that returns without the flush of watch.go:347
DebounceInputClosedNoFlush(s, order) ==
    /\ dpc[s] = "select"
    /\ rpc[s] = "closed"
    /\ order \in Orders(DOMAIN seen[s])
    /\ dpc' = [dpc EXCEPT ![s] = "done"]
    /\ UNCHANGED <<seen, dbatch, tickBuf, deadline, now>>
    /\ UNCHANGED <<wvars, rvars, cvars, hvars>>

\* watch.go:344-349 and flushEvents up to its send, watch.go:317-332: the
\* receive on the closed input yields ok = false; with an empty map flushEvents
\* returns at once and the debouncer returns, closing out
DebounceInputClosed(s, order) ==
    /\ dpc[s] = "select"
    /\ rpc[s] = "closed"
    /\ order \in Orders(DOMAIN seen[s])
    /\ IF DOMAIN seen[s] = {}
       THEN /\ dpc' = [dpc EXCEPT ![s] = "done"]
            /\ UNCHANGED dbatch
       ELSE /\ dbatch' = [dbatch EXCEPT ![s] = SliceStable(order, seen[s])]
            /\ dpc' = [dpc EXCEPT ![s] = "final"]
    /\ UNCHANGED <<seen, tickBuf, deadline, now>>
    /\ UNCHANGED <<wvars, rvars, cvars, hvars>>

\* watch.go:332-333 and 348 meeting watch.go:202-205: the consumer receives
\* the final batch; the debouncer empties its map and returns, closing out
FinalBatchHandoff(s) ==
    /\ dpc[s] = "final"
    /\ cpc[s] = "select"
    /\ cbatch' = [cbatch EXCEPT ![s] = dbatch[s]]
    /\ cpc' = [cpc EXCEPT ![s] = "dispatch"]
    /\ inflight' = [inflight EXCEPT ![s] = @ + 1]
    /\ seen' = [seen EXCEPT ![s] = <<>>]
    /\ dbatch' = [dbatch EXCEPT ![s] = <<>>]
    /\ dpc' = [dpc EXCEPT ![s] = "done"]
    /\ lastDispatch' = [lastDispatch EXCEPT ![s] = NoDispatch]
    /\ lastObs' = [lastObs EXCEPT ![s] = <<>>]
    /\ reordered' = [reordered EXCEPT ![s] = FALSE]
    /\ discovered' = [discovered EXCEPT ![s] = <<>>]
    /\ lastQuiet' = [lastQuiet EXCEPT ![s] = sinceAccept[s]]
    /\ burst' = [burst EXCEPT ![s] =
                    IF InBatch(@.ev, dbatch[s]) THEN [@ EXCEPT !.batches = @ + 1] ELSE @]
    /\ UNCHANGED <<tickBuf, deadline, now, sinceAccept, lastRaw>>
    /\ UNCHANGED <<wvars, rvars>>

(***************************************************************************)
(* The specification.                                                      *)
(***************************************************************************)
Next ==
    \/ WatchForServices
    \/ \E ok \in BOOLEAN : WatchService(ok)
    \/ WatchLoopEnd
    \/ WatchWait
    \/ CancelParent
    \/ Advance
    \/ \E s \in SvcIds :
        \/ WatchStart(s)
        \/ WatchCtxDone(s)
        \/ WatchFsError(s)
        \/ \E p \in Files, errs \in SUBSET (1..Len(cfg[s])) : WatchEvent(s, p, errs)
        \/ TickFire(s)
        \/ DebounceCtxDone(s)
        \/ \E order \in Orders(DOMAIN seen[s]) : DebounceTick(s, order)
        \/ DebounceInput(s)
        \/ BatchHandoff(s)
        \/ BatchFromClosed(s)
        \/ ConsumerCtxDone(s)
        \/ \E up, sy \in BOOLEAN : HandleBatch(s, up, sy)

Spec == Init /\ [][Next]_vars

(***************************************************************************)
(* The debouncer and its consumer as watch starts them for one service,    *)
(* with an input that its owner may close.                                 *)
(***************************************************************************)
BatcherProject == Project(<<SvcSync("a")>>, "none", TRUE)

\* the state WatchStart leaves the first service of project p in, the service
\* being watched with the given triggers and watcher paths
WatchingFirst(p, triggers, paths) ==
    LET first(x, none) == [s \in SvcIds |-> IF s = 1 THEN x ELSE none]
    IN  /\ project = p
        /\ now = 0
        /\ changes = 0
        /\ parentDone = FALSE
        /\ groupDone = FALSE
        /\ egErr = "nil"
        /\ wpc = "wait"
        /\ wi = 2
        /\ wresult = "nil"
        /\ watching = TRUE
        /\ cfg = first(triggers, <<>>)
        /\ watchPaths = first(paths, <<>>)
        /\ watcher = first("started", "none")
        /\ svcDone = [s \in SvcIds |-> FALSE]
        /\ rpc = first("select", "idle")
        /\ rqueue = [s \in SvcIds |-> <<>>]
        /\ rerr = [s \in SvcIds |-> "nil"]
        /\ dpc = first("select", "idle")
        /\ seen = [s \in SvcIds |-> <<>>]
        /\ dbatch = [s \in SvcIds |-> <<>>]
        /\ tickBuf = [s \in SvcIds |-> FALSE]
        /\ deadline = first(quietPeriod, 0)
        /\ cpc = first("select", "idle")
        /\ cbatch = [s \in SvcIds |-> <<>>]
        /\ inflight = [s \in SvcIds |-> 0]
        /\ lastObs = [s \in SvcIds |-> <<>>]
        /\ reordered = [s \in SvcIds |-> FALSE]
        /\ sinceAccept = [s \in SvcIds |-> quietPeriod]
        /\ lastQuiet = [s \in SvcIds |-> quietPeriod]
        /\ burst = [s \in SvcIds |-> NoBurst]
        /\ discovered = [s \in SvcIds |-> <<>>]
        /\ lastRaw = NoRaw
        /\ lastDispatch = [s \in SvcIds |-> NoDispatch]
        /\ produced = [s \in SvcIds |-> {}]

InitBatcher ==
    LET it == watchIteration(BatcherProject.Services[1], FALSE, TRUE, TRUE)
    IN  WatchingFirst(BatcherProject, it.triggers, it.paths)

NextBatcher ==
    \/ CancelParent
    \/ Advance
    \/ \E s \in SvcIds :
        \/ \E p \in Files, errs \in SUBSET (1..Len(cfg[s])) : WatchEvent(s, p, errs)
        \/ InputClose(s)
        \/ TickFire(s)
        \/ DebounceCtxDone(s)
        \/ \E order \in Orders(DOMAIN seen[s]) : DebounceTick(s, order)
        \/ DebounceInput(s)
        \/ \E order \in Orders(DOMAIN seen[s]) : DebounceInputClosed(s, order)
        \/ BatchHandoff(s)
        \/ FinalBatchHandoff(s)
        \/ BatchFromClosed(s)
        \/ ConsumerCtxDone(s)
        \/ \E up, sy \in BOOLEAN : HandleBatch(s, up, sy)

SpecBatcher == InitBatcher /\ [][NextBatcher]_vars

(***************************************************************************)
(* The classifier, maybeFileEvent, as watch's loop applies it to the raw   *)
(* changes of one service with one trigger, on a Linux and on a Windows    *)
(* host.  The trigger path is absolute and clean, as loadDevelopmentConfig *)
(* leaves it.                                                              *)
(***************************************************************************)
WinSrcDir == <<"C", ":", BackSlash, "s">>

\* the trigger paths and the paths of raw changes of a host
ClassifyTriggerPath(goos) == IF goos = Windows THEN WinSrcDir ELSE SrcDir

ClassifyPaths(goos) ==
    IF goos = Windows
    THEN { WinSrcDir,
           WinSrcDir \o <<BackSlash, "f">>,
           WinSrcDir \o <<BackSlash, "d", BackSlash, "f">> }
    ELSE { SrcDir, FileF, FileD }

\* the targets of a trigger: none, absolute, with a trailing slash, relative
ClassifyTargets == { <<>>, AppDir, AppDir \o <<Sep>>, <<"a">> }

ClassifyIgnores == { <<>>, <<<<"d">>>> }

ClassifyTriggers(goos) ==
    { Trigger(ClassifyTriggerPath(goos), WatchActionSync, target, ignore) :
          target \in ClassifyTargets, ignore \in ClassifyIgnores }

ClassifyProject(goos, trigger) ==
    [Project(<<Service("a", TRUE, Develop(<<trigger>>), <<>>)>>, "none", TRUE)
         EXCEPT !.GOOS = goos]

InitClassify ==
    \E goos \in {Linux, Windows} : \E trigger \in ClassifyTriggers(goos) :
        WatchingFirst(ClassifyProject(goos, trigger), <<trigger>>, <<trigger.Path>>)

NextClassify ==
    \E s \in SvcIds :
        \/ \E p \in ClassifyPaths(project.GOOS), errs \in SUBSET (1..Len(cfg[s])) :
               WatchEvent(s, p, errs)
        \/ DebounceInput(s)

SpecClassify == InitClassify /\ [][NextClassify]_vars

(***************************************************************************)
(* The trigger resolver, loadDevelopmentConfig, as Watch's loop applies it *)
(* to a service with one trigger, over the paths a trigger may declare.    *)
(***************************************************************************)
\* declared trigger paths: none, relative, absolute, unclean
ResolvePaths ==
    { <<>>, Dot, DotDot, <<"s">>, <<".", "/", "s">>, <<"s", "/", ".", ".">>,
      SrcDir, SrcDir \o <<Sep>>, <<Sep>>, DataDir }

ResolveServices ==
    { Service("a", build, Develop(<<Trigger(path, action, AppDir, <<>>)>>), <<>>) :
          build \in BOOLEAN, path \in ResolvePaths,
          action \in {WatchActionSync, WatchActionRebuild} }

ResolveProjects ==
    { Project(<<svc>>, selected, wdOK) :
          svc \in ResolveServices, selected \in {"none", "all"}, wdOK \in BOOLEAN }

InitResolve ==
    /\ project \in ResolveProjects
    /\ now = 0
    /\ changes = 0
    /\ parentDone = FALSE
    /\ groupDone = FALSE
    /\ egErr = "nil"
    /\ wpc = "start"
    /\ wi = 1
    /\ wresult = "nil"
    /\ watching = FALSE
    /\ cfg = [s \in SvcIds |-> <<>>]
    /\ watchPaths = [s \in SvcIds |-> <<>>]
    /\ watcher = [s \in SvcIds |-> "none"]
    /\ svcDone = [s \in SvcIds |-> FALSE]
    /\ rpc = [s \in SvcIds |-> "idle"]
    /\ rqueue = [s \in SvcIds |-> <<>>]
    /\ rerr = [s \in SvcIds |-> "nil"]
    /\ dpc = [s \in SvcIds |-> "idle"]
    /\ seen = [s \in SvcIds |-> <<>>]
    /\ dbatch = [s \in SvcIds |-> <<>>]
    /\ tickBuf = [s \in SvcIds |-> FALSE]
    /\ deadline = [s \in SvcIds |-> 0]
    /\ cpc = [s \in SvcIds |-> "idle"]
    /\ cbatch = [s \in SvcIds |-> <<>>]
    /\ inflight = [s \in SvcIds |-> 0]
    /\ lastObs = [s \in SvcIds |-> <<>>]
    /\ reordered = [s \in SvcIds |-> FALSE]
    /\ sinceAccept = [s \in SvcIds |-> quietPeriod]
    /\ lastQuiet = [s \in SvcIds |-> quietPeriod]
    /\ burst = [s \in SvcIds |-> NoBurst]
    /\ discovered = [s \in SvcIds |-> <<>>]
    /\ lastRaw = NoRaw
    /\ lastDispatch = [s \in SvcIds |-> NoDispatch]
    /\ produced = [s \in SvcIds |-> {}]

NextResolve ==
    \/ WatchForServices
    \/ \E ok \in BOOLEAN : WatchService(ok)
    \/ WatchLoopEnd

SpecResolve == InitResolve /\ [][NextResolve]_vars

(***************************************************************************)
(* Properties.                                                             *)
(***************************************************************************)
Started(s) == rpc[s] # "idle"

\* Watch and every call of watch it started have returned
AllReturned ==
    /\ wpc = "returned"
    /\ \A s \in SvcIds : rpc[s] \in {"idle", "done"}

\* the loop of watch is at its send on events (watch.go:225) and nothing will
\* ever receive: the debouncer has terminated, or is itself at its send on out
\* (watch.go:332) with the consumer terminated
BlockedForGood(s) ==
    /\ rpc[s] = "send"
    /\ \/ dpc[s] = "done"
       \/ dpc[s] = "send" /\ cpc[s] = "done"

\* a call of watch that is blocked for good stays so at every step
BlockedStays ==
    [][\A s \in SvcIds : BlockedForGood(s) => BlockedForGood(s)']_vars

\* C1: once the parent context is cancelled every call of watch returns, so
\* none is ever blocked for good
C1_CancelTerminates ==
    parentDone => \A s \in SvcIds : ~BlockedForGood(s)

\* C2 as claimed: a debouncer that has terminated has emitted everything it
\* received, so no received event is left pending
C2_FlushOnCancel ==
    \A s \in SvcIds : dpc[s] = "done" => DOMAIN lastObs[s] = {}

\* C2 as amended: on cancellation the debouncer does not flush.  With the
\* context done and no tick waiting, the only way it leaves its select is to
\* terminate, with the events it holds left unemitted
C2_CancelDropsPending ==
    [][\A s \in SvcIds :
          (dpc[s] = "select" /\ ctxDone(s) /\ ~tickBuf[s] /\ dpc'[s] # "select")
              => (dpc'[s] = "done" /\ lastObs'[s] = lastObs[s] /\ cbatch'[s] = cbatch[s])]_vars

\* a debouncer terminated by cancellation while it held events
C2_Witness ==
    \E s \in SvcIds : dpc[s] = "done" /\ DOMAIN lastObs[s] # {} /\ DOMAIN seen[s] # {}

\* C3: at most one call of handleWatchBatch of a service is in flight, and it
\* is the consumer's own call
C3_OneDispatchInFlight ==
    \A s \in SvcIds :
        /\ inflight[s] <= 1
        /\ (inflight[s] = 1) = (cpc[s] = "dispatch")

\* a dispatch is in flight while the debouncer already offers the next batch
C3_Witness ==
    \E s \in SvcIds : inflight[s] = 1 /\ dpc[s] = "send" /\ cbatch[s] # <<>>

HasRebuild(batch) == \E k \in 1..Len(batch) : batch[k].Action = WatchActionRebuild

\* C4: a batch with a rebuild event makes exactly one Up call for the service
\* and no Sync call; a non-empty batch without one makes exactly one Sync call
\* with the path mappings of all its events in batch order, and no Up call
C4_RebuildShortCircuit ==
    \A s \in SvcIds :
        lastDispatch[s].returned =>
            /\ HasRebuild(cbatch[s]) =>
                   lastDispatch[s].calls =
                       <<[kind |-> "up", services |-> <<Name(s)>>, mappings |-> <<>>]>>
            /\ (~HasRebuild(cbatch[s]) /\ cbatch[s] # <<>>) =>
                   lastDispatch[s].calls =
                       <<[kind |-> "sync", services |-> <<Name(s)>>,
                          mappings |-> [k \in 1..Len(cbatch[s]) |->
                                           [HostPath |-> cbatch[s][k].HostPath,
                                            ContainerPath |-> cbatch[s][k].ContainerPath]]]>>

\* a dispatched batch with a sync event followed by a rebuild event
C4_Witness ==
    \E s \in SvcIds :
        /\ lastDispatch[s].returned
        /\ Len(cbatch[s]) = 2
        /\ cbatch[s][1].Action = WatchActionSync
        /\ cbatch[s][2].Action = WatchActionRebuild

\* a dispatched batch of two sync events
C4_WitnessSync ==
    \E s \in SvcIds :
        /\ lastDispatch[s].returned
        /\ Len(cbatch[s]) = 2
        /\ ~HasRebuild(cbatch[s])

\* C5: a run of equal events, each received less than quietPeriod after the
\* one before, ends up in exactly one batch: never in a second one
C5_OneBatchPerBurst ==
    \A s \in SvcIds : burst[s].batches <= 1

\* C6: the batch the debouncer emits holds every pending event once, ascending
\* by the time the event was last received
C6_OrderedByLastObserved ==
    \A s \in SvcIds :
        dpc[s] = "send" =>
            /\ {dbatch[s][k] : k \in 1..Len(dbatch[s])} = DOMAIN lastObs[s]
            /\ Len(dbatch[s]) = Cardinality(DOMAIN lastObs[s])
            /\ \A i, j \in 1..Len(dbatch[s]) :
                   i < j => lastObs[s][dbatch[s][i]] <= lastObs[s][dbatch[s][j]]

\* A, then B, then A again: the batch is <<B, A>>
C6_Witness ==
    \E s \in SvcIds :
        /\ dpc[s] = "send"
        /\ reordered[s]
        /\ Len(dbatch[s]) = 2
        /\ lastObs[s][dbatch[s][1]] < lastObs[s][dbatch[s][2]]

\* C7: a batch is handed over only when quietPeriod has passed since the last
\* event was received
C7_QuietBeforeBatch ==
    \A s \in SvcIds : lastQuiet[s] >= quietPeriod

HasFatalService ==
    \E i \in 1..N :
        /\ ~project.Services[i].Build
        /\ \E k \in 1..Len(project.Services[i].Develop.Watch) :
               project.Services[i].Develop.Watch[k].Action = WatchActionRebuild

\* C8: with a service that has a rebuild trigger and no build context, Watch
\* returns an error and has started no watcher
C8_FatalBeforeAnyWatcher ==
    (wpc = "returned" /\ HasFatalService) =>
        /\ wresult # "nil"
        /\ \A s \in SvcIds : watcher[s] = "none"

\* C9: once a loop has returned a hard error the group's context is
\* cancelled, every other loop returns, so none is blocked for good, and what
\* Watch returns from eg.Wait is that first error
C9_FirstErrorFanOut ==
    egErr # "nil" =>
        /\ groupDone
        /\ \A s \in SvcIds : ~BlockedForGood(s)
        /\ (wpc = "returned" /\ wi > N /\ watching) => wresult = egErr

\* path is the source of a bind mount of the service or lies below one
BindCovered(path, volumes) ==
    \E k \in 1..Len(volumes) : volumes[k].Bind /\ IsChild(volumes[k].Source, path)

\* C10: a trigger whose path a bind mount covers is not among the watcher's
\* paths, and no file event is ever produced for it
C10_BindMountSkipped ==
    \A s \in SvcIds :
        \A k \in 1..Len(cfg[s]) :
            BindCovered(cfg[s][k].Path, project.Services[s].Volumes) =>
                /\ \A m \in 1..Len(watchPaths[s]) : watchPaths[s][m] # cfg[s][k].Path
                /\ k \notin produced[s]

\* the consumer's step from its call of handleWatchBatch back to its select
DispatchReturns(s) == cpc[s] = "dispatch" /\ cpc'[s] # "dispatch"

C11_WitnessRebuild ==
    \E s \in SvcIds :
        /\ lastDispatch[s].returned /\ lastDispatch[s].failed
        /\ HasRebuild(cbatch[s])
        /\ cpc[s] = "select" /\ rpc[s] = "select"
        /\ ~ctxDone(s)

\* the debouncer is at its send on out (watch.go:332) and the consumer, the
\* only receiver, has returned: the deferred close(out) is never reached
DebouncerStuck(s) == dpc[s] = "send" /\ cpc[s] = "done"

\* a debouncer that is stuck stays so at every step
DebouncerStuckStays ==
    [][\A s \in SvcIds : DebouncerStuck(s) => DebouncerStuck(s)']_vars

\* C12: once the debouncer is stopped its output channel gets closed, so a
\* debouncer whose context is cancelled is never stuck short of close(out)
C12_OutputClosedOnStop ==
    \A s \in SvcIds : ctxDone(s) => ~DebouncerStuck(s)

\* the place of e in a sequence that holds it
Pos(seq, e) == CHOOSE k \in 1..Len(seq) : seq[k] = e

\* C17: events of a batch that were last received at the same time stand in
\* the order in which they were first received
C17_TiesInDiscoveryOrder ==
    \A s \in SvcIds :
        dpc[s] = "send" =>
            \A i, j \in 1..Len(dbatch[s]) :
                (i < j /\ lastObs[s][dbatch[s][i]] = lastObs[s][dbatch[s][j]]) =>
                    Pos(discovered[s], dbatch[s][i]) < Pos(discovered[s], dbatch[s][j])

\* the debouncer's step that takes a tick from the ticker's channel
TickTaken(s) == tickBuf[s] /\ ~tickBuf'[s]

\* C13: the debouncer never sends an empty batch.  What it offers on out
\* holds an event; a tick taken with an empty map changes nothing of the
\* debouncer or of the consumer; and with an empty map the closing of the
\* input ends the debouncer with nothing sent
C13_NoEmptyBatch ==
    /\ [](\A s \in SvcIds : dpc[s] \in {"send", "final"} => Len(dbatch[s]) >= 1)
    /\ [][\A s \in SvcIds :
             /\ (TickTaken(s) /\ DOMAIN seen[s] = {}) =>
                    /\ dpc'[s] = "select"
                    /\ seen'[s] = seen[s] /\ dbatch'[s] = dbatch[s]
                    /\ cbatch'[s] = cbatch[s] /\ inflight'[s] = inflight[s]
                    /\ cpc'[s] = cpc[s]
             /\ (dpc[s] = "select" /\ rpc[s] = "closed" /\ DOMAIN seen[s] = {}
                   /\ dpc'[s] # "select") =>
                    /\ dpc'[s] = "done"
                    /\ dbatch'[s] = dbatch[s]
                    /\ cbatch'[s] = cbatch[s] /\ inflight'[s] = inflight[s]]_vars

\* the ticker has fired, the tick was taken with an empty map, and nothing was
\* sent: the consumer has received nothing
C13_Witness ==
    \E s \in SvcIds :
        /\ dpc[s] = "select" /\ ~tickBuf[s]
        /\ now >= quietPeriod /\ deadline[s] > now
        /\ changes = 0 /\ DOMAIN seen[s] = {}
        /\ cpc[s] = "select" /\ cbatch[s] = <<>> /\ inflight[s] = 0
        /\ ~ctxDone(s)

\* the input was closed while the map was empty: out is closed, nothing sent
C13_WitnessClosed ==
    \E s \in SvcIds :
        /\ dpc[s] = "done" /\ rpc[s] = "closed" /\ ~ctxDone(s)
        /\ changes = 0
        /\ cpc[s] = "select" /\ cbatch[s] = <<>> /\ inflight[s] = 0

\* batch holds each pending event once, ascending by last receipt
OrderedBatch(s, batch) ==
    /\ {batch[k] : k \in 1..Len(batch)} = DOMAIN lastObs[s]
    /\ Len(batch) = Cardinality(DOMAIN lastObs[s])
    /\ \A i, j \in 1..Len(batch) : i < j => lastObs[s][batch[i]] <= lastObs[s][batch[j]]

\* C16: when its input is closed the debouncer flushes what is pending as one
\* final batch, ordered like any other, and then terminates, closing out; with
\* nothing pending it terminates without sending.  The closure branch is the
\* only way into the final send; the final send holds every pending event in
\* order; the step that leaves it hands that batch to the consumer and ends
\* the debouncer; and a debouncer that ended without cancellation has left
\* nothing unsent
C16_FlushOnInputClose ==
    /\ [](\A s \in SvcIds :
             /\ dpc[s] = "final" => (rpc[s] = "closed" /\ OrderedBatch(s, dbatch[s])
                                       /\ Len(dbatch[s]) >= 1)
             /\ (dpc[s] = "done" /\ ~ctxDone(s)) =>
                    (rpc[s] = "closed" /\ DOMAIN lastObs[s] = {} /\ DOMAIN seen[s] = {}))
    /\ [][\A s \in SvcIds :
             /\ (dpc[s] = "select" /\ rpc[s] = "closed" /\ ~ctxDone(s) /\ ~tickBuf[s]
                   /\ dpc'[s] # "select") =>
                    /\ DOMAIN seen[s] # {} => dpc'[s] = "final"
                    /\ DOMAIN seen[s] = {} =>
                           (dpc'[s] = "done" /\ cbatch'[s] = cbatch[s]
                             /\ inflight'[s] = inflight[s])
             /\ (dpc[s] = "final" /\ dpc'[s] # "final") =>
                    /\ dpc'[s] = "done"
                    /\ cbatch'[s] = dbatch[s]
                    /\ cpc[s] = "select" /\ cpc'[s] = "dispatch"]_vars

\* the input was closed with two events pending, before any tick: the
\* consumer holds the final batch of two and the debouncer has terminated
C16_Witness ==
    \E s \in SvcIds :
        /\ dpc[s] = "done" /\ rpc[s] = "closed" /\ ~ctxDone(s)
        /\ now < quietPeriod
        /\ cpc[s] = "dispatch" /\ Len(cbatch[s]) = 2

\* the elements of hostPath below the trigger path
RelComps(goos, triggerPath, hostPath) ==
    SubSeq(CompsOn(goos, hostPath), Len(CompsOn(goos, triggerPath)) + 1,
           Len(CompsOn(goos, hostPath)))

\* target joined with the elements of hostPath below the trigger path, with
\* forward slashes alone
SlashJoined(goos, trigger, hostPath) ==
    LET body == JoinComps(Comps(trigger.Target) \o RelComps(goos, trigger.Path, hostPath), 1)
    IN  IF IsRooted(trigger.Target) THEN <<Sep>> \o body ELSE body

\* C14: the container path of every file event is the trigger's target
\* joined, with forward slashes alone, with the path of the host file
\* relative to the trigger path, whatever separator the host uses; it is
\* empty when the target is empty
C14_ContainerPathForwardSlash ==
    \A s \in SvcIds :
        \A i \in 1..Len(rqueue[s]) :
            LET trigger == cfg[s][rqueue[s][i].idx]
                e == rqueue[s][i].ev
            IN  e.ContainerPath =
                    IF trigger.Target = <<>> THEN <<>>
                    ELSE SlashJoined(project.GOOS, trigger, e.HostPath)

\* the step of watch's loop that takes a raw change from the watcher
RawChangeTaken == changes' = changes + 1

\* ignore.Matches failed for trigger k of the raw change last taken, whose
\* path the trigger's path contains
MatchFailed(raw, k) ==
    /\ k \in raw.errs
    /\ IsChildOn(project.GOOS, cfg[raw.svc][k].Path, raw.path)

\* C15 as claimed: a failure of ignore.Matches does not drop the change; the
\* raw change still yields a file event for that trigger
C15_ErrNotIgnored ==
    [][RawChangeTaken =>
          \A k \in lastRaw'.errs :
              MatchFailed(lastRaw', k) =>
                  \E i \in 1..Len(rqueue'[lastRaw'.svc]) : rqueue'[lastRaw'.svc][i].idx = k]_vars

\* C15 as amended: a failure of ignore.Matches drops the change for that
\* trigger; the raw change yields no file event for it
C15_ErrDropsEvent ==
    [][RawChangeTaken =>
          \A k \in lastRaw'.errs :
              MatchFailed(lastRaw', k) =>
                  \A i \in 1..Len(rqueue'[lastRaw'.svc]) : rqueue'[lastRaw'.svc][i].idx # k]_vars

\* a raw change below the trigger path whose ignore.Matches call failed has
\* been taken, and the loop is back at its select with nothing to send
C15_Witness ==
    /\ lastRaw.svc \in SvcIds
    /\ \E k \in lastRaw.errs : MatchFailed(lastRaw, k)
    /\ changes = 1
    /\ rpc[lastRaw.svc] = "select"
    /\ rqueue[lastRaw.svc] = <<>>
    /\ DOMAIN seen[lastRaw.svc] = {}

\* the errors loadDevelopmentConfig returns
ResolveErrors == {"decode", "symlink", "nopath", "norebuild"}

\* the service declares a trigger with an empty path
DeclaresEmptyPath(service) ==
    \E k \in 1..Len(service.Develop.Watch) : service.Develop.Watch[k].Path = <<>>

\* C18: a service that declares a trigger with an empty path does not
\* resolve: once Watch's loop has been at the service, Watch has returned an
\* error of loadDevelopmentConfig and holds no resolved trigger for it
C18_EmptyPathRejected ==
    \A i \in 1..N :
        (DeclaresEmptyPath(project.Services[i]) /\ (wi > i \/ (wi = i /\ wpc = "returned"))
          /\ project.Selected # "unknown") =>
            /\ wpc = "returned"
            /\ wresult \in ResolveErrors
            /\ cfg[i] = <<>>

\* C19: every call of handleWatchBatch, and so every call of the sync
\* collaborator, is given a batch that holds an event
C19_DispatchNonEmpty ==
    \A s \in SvcIds :
        /\ cpc[s] = "dispatch" => Len(cbatch[s]) >= 1
        /\ lastDispatch[s].returned =>
               \A k \in 1..Len(lastDispatch[s].calls) :
                   lastDispatch[s].calls[k].kind = "sync" =>
                       Len(lastDispatch[s].calls[k].mappings) >= 1

\* C20: when Watch has returned, every call of watch it started has returned
\* and every watcher it created is closed
C20_ReturnLeavesNothingRunning ==
    wpc = "returned" =>
        \A s \in SvcIds :
            /\ rpc[s] \in {"idle", "done"}
            /\ watcher[s] \in {"none", "closed"}

====
